---- MODULE Spec2Model ----
(***************************************************************************)
(* ezbp: the boilerplate expansion engine (BoilerplateManager / Engine).    *)
(*                                                                         *)
(* Texts (template names, template values, prompts, replies) are finite    *)
(* sequences of one-character strings, indexed as Go indexes bytes         *)
(* (0-based, half-open slices) through Char and Slice.                     *)
(***************************************************************************)
EXTENDS Integers, Sequences, FiniteSets, TLC

(***************************************************************************)
(* Bounds of the model.                                                    *)
(***************************************************************************)
\* longest text the rewriting loop may build
MaxLen == 13
\* successful expansions in one session
MaxExpands == 2
\* calls of the store in one session of direct store calls
MaxCalls == 3

\* bm.ui calls followed within one Expand
MaxAsk == 3

(***************************************************************************)
(* Go string primitives.                                                   *)
(***************************************************************************)
\* value[i]
Char(value, i) == value[i + 1]

\* value[lo:hi]
Slice(value, lo, hi) == SubSeq(value, lo + 1, hi)

Range(s) == {s[i] : i \in 1..Len(s)}

Min(S) == CHOOSE x \in S : \A y \in S : x <= y

\* the character class [a-zA-Z0-9_] of variableRe
IdentChars ==
    {"a","b","c","d","e","f","g","h","i","j","k","l","m",
     "n","o","p","q","r","s","t","u","v","w","x","y","z",
     "A","B","C","D","E","F","G","H","I","J","K","L","M",
     "N","O","P","Q","R","S","T","U","V","W","X","Y","Z",
     "0","1","2","3","4","5","6","7","8","9","_"}

(***************************************************************************)
(* variableRe = (\[\[([a-zA-Z0-9_]+)\]\]|{{[^}]+}})                        *)
(* Each operator gives the set of offsets at which a match of one          *)
(* alternative that begins at offset start can end (at most one offset:    *)
(* neither inner class contains the first character of its closing         *)
(* delimiter).                                                             *)
(***************************************************************************)
\* faulty variant: \[\[([^\]]+)\]\], any inner character but the closing bracket
InclusionEnds_Any(value, start) ==
    IF start + 5 <= Len(value) /\ Char(value, start) = "[" /\ Char(value, start + 1) = "["
    THEN {e \in (start + 5)..Len(value) :
            /\ Char(value, e - 2) = "]" /\ Char(value, e - 1) = "]"
            /\ \A i \in (start + 2)..(e - 3) : Char(value, i) # "]"}
    ELSE {}

\* \[\[([a-zA-Z0-9_]+)\]\]
InclusionEnds(value, start) ==
    IF start + 5 <= Len(value) /\ Char(value, start) = "[" /\ Char(value, start + 1) = "["
    THEN {e \in (start + 5)..Len(value) :
            /\ Char(value, e - 2) = "]" /\ Char(value, e - 1) = "]"
            /\ \A i \in (start + 2)..(e - 3) : Char(value, i) \in IdentChars}
    ELSE {}

\* faulty variant: {{[^}\[]+}}, no opening bracket inside a prompt either
PromptEnds_NoBracket(value, start) ==
    IF start + 5 <= Len(value) /\ Char(value, start) = "{" /\ Char(value, start + 1) = "{"
    THEN {e \in (start + 5)..Len(value) :
            /\ Char(value, e - 2) = "}" /\ Char(value, e - 1) = "}"
            /\ \A i \in (start + 2)..(e - 3) : Char(value, i) \notin {"}", "["}}
    ELSE {}

\* {{[^}]+}}
PromptEnds(value, start) ==
    IF start + 5 <= Len(value) /\ Char(value, start) = "{" /\ Char(value, start + 1) = "{"
    THEN {e \in (start + 5)..Len(value) :
            /\ Char(value, e - 2) = "}" /\ Char(value, e - 1) = "}"
            /\ \A i \in (start + 2)..(e - 3) : Char(value, i) # "}"}
    ELSE {}

variableRe(value, start) == InclusionEnds(value, start) \cup PromptEnds(value, start)

\* faulty variant: a template reference anywhere is preferred to a prompt
FindStringIndex_InclusionFirst(value) ==
    LET incl == {s \in 0..(Len(value) - 1) : InclusionEnds(value, s) # {}}
        starts == {s \in 0..(Len(value) - 1) : variableRe(value, s) # {}}
    IN  IF starts = {} THEN <<>>
        ELSE LET start == IF incl # {} THEN Min(incl) ELSE Min(starts)
             IN  <<start, Min(variableRe(value, start))>>

\* variableRe.FindStringIndex(value): the leftmost match, <<>> for nil
FindStringIndex(value) ==
    LET starts == {s \in 0..(Len(value) - 1) : variableRe(value, s) # {}}
    IN  IF starts = {} THEN <<>>
        ELSE LET start == Min(starts)
             IN  <<start, CHOOSE e \in variableRe(value, start) : TRUE>>

\* strings.IndexRune(s, '|'), -1 when absent
IndexRune(s) ==
    IF "|" \in Range(s) THEN Min({i \in 0..(Len(s) - 1) : Char(s, i) = "|"}) ELSE -1

\* strings.Split(s, "|")
RECURSIVE Split(_)
Split(s) ==
    IF IndexRune(s) < 0 THEN <<s>>
    ELSE <<Slice(s, 0, IndexRune(s))>> \o Split(Slice(s, IndexRune(s) + 1, Len(s)))

(***************************************************************************)
(* Inputs: the template names and values the stores are built from, the    *)
(* texts a user may type, and the ways a UI call may fail.                 *)
(***************************************************************************)
NameA == <<"A">>
NameB == <<"B">>
\* a name is any non-empty string: this one is spelled like a reference
NameBrA == <<"[", "[", "A", "]", "]">>

Names == {NameA, NameB, NameBrA}

ValCore     == <<"c">>
ValInclA    == <<"x", "[", "[", "A", "]", "]", "y">>
ValInclB    == <<"[", "[", "B", "]", "]">>
ValPrompt   == <<"h", "{", "{", "n", "}", "}", "!">>
ValSelect   == <<"{", "{", "P", "|", "r", "|", "g", "}", "}">>
ValSelectE  == <<"{", "{", "Q", "|", "|", "r", "|", "}", "}">>
ValTwice    == <<"{", "{", "x", "}", "}", "&", "{", "{", "x", "}", "}">>
ValAskMiss  == <<"{", "{", " ", "n", " ", "}", "}", "[", "[", "M", "]", "]">>

Values ==
    {ValCore, ValInclA, ValInclB, ValPrompt, ValSelect, ValSelectE, ValTwice, ValAskMiss}

Reply1   == <<"1">>
ReplyPad == <<" ", "2", " ">>

Replies == {Reply1, ReplyPad}

\* huh.ErrUserAborted, and any other failure of the form or of the rofi command
UIErrors == {"user aborted", "failed"}

(***************************************************************************)
(* State.                                                                  *)
(***************************************************************************)
VARIABLES
    boilerplates,   \* bm.boilerplates: name -> Boilerplate, the in-memory collection
    db,             \* the rows of the boilerplates table: name -> Boilerplate
    pc,             \* where Expand stands: "idle", "loop" or "returned"
    name,           \* Expand's argument
    before,         \* Expand's local before: the text rewritten so far
    result,         \* what the last Expand returned: [text, err]
    uiCalls,        \* the bm.ui.Select and bm.ui.Prompt calls of this Expand, in order
    dbCalls,        \* the bm.db calls of this Expand, in order
    entry,          \* boilerplates and db as they were when this Expand was called
    runtime,        \* what setupRuntime left: the --ui flag, the config file read,
                    \* config after the override, and the UI bm.ui was built as
    typed,          \* the texts the user of this session enters at a prompt
    offered         \* the list the last SelectBoilerplate showed, top first

vars == <<boilerplates, db, pc, name, before, result, uiCalls, dbCalls, entry, runtime,
          typed, offered>>

NilErr == [kind |-> "nil", arg |-> <<>>]

\* faulty variant: the lookup failure is not reported
ErrUnknown_Nil(n) == NilErr

\* fmt.Errorf("unknown boilerplate %q", name)
ErrUnknown(n) == [kind |-> "unknown boilerplate", arg |-> n]

\* fmt.Errorf("unknown referenced boilerplate %q", innerValue)
ErrUnknownReferenced(innerValue) ==
    [kind |-> "unknown referenced boilerplate", arg |-> innerValue]

\* faulty variant: the failure of the UI is dropped
ErrUI_Swallowed(e) == NilErr

\* the error of the UI, returned as it is
ErrUI(e) == [kind |-> "ui", arg |-> <<e>>]

(***************************************************************************)
(* The configuration and the choice of the UI.                             *)
(***************************************************************************)
\* values of the --ui flag; "" when the flag is not given
UIFlags == {"", "rofi", "terminal", "fuzzy"}

\* config.toml: absent, or present with its default_ui ("" when the key is missing)
ConfigFiles ==
    {[exists |-> FALSE, default_ui |-> ""]}
        \cup [exists : {TRUE}, default_ui : {"", "rofi", "terminal", "fuzzy"}]

NoConfigFile == [exists |-> FALSE, default_ui |-> ""]

defaultConfig == [DefaultUI |-> "terminal"]

\* loadConfigFromFile: DefaultUI of the Config it returns
loadConfigFromFile(file) ==
    IF ~file.exists THEN defaultConfig
    ELSE IF file.default_ui # "rofi" /\ file.default_ui # "terminal"
    THEN [DefaultUI |-> defaultConfig.DefaultUI]
    ELSE [DefaultUI |-> file.default_ui]

\* faulty variant: the flag does not override a config that asks for rofi
overrideWithFlags_ConfigFirst(config, ui) ==
    IF ui # "" /\ config.DefaultUI # "rofi" THEN [config EXCEPT !.DefaultUI = ui]
    ELSE config

\* "Override values with flags": if ui != "" { config.DefaultUI = ui }
overrideWithFlags(config, ui) ==
    IF ui # "" THEN [config EXCEPT !.DefaultUI = ui] ELSE config

\* NewBoilerplateManager: the UI it builds
NewBoilerplateManager(config) ==
    IF config.DefaultUI = "rofi" THEN "RofiUI" ELSE "TermUI"

\* setupRuntime with the flag ui and the config file found
setupRuntime(ui, file) ==
    LET config == overrideWithFlags(loadConfigFromFile(file), ui)
    IN  [ui |-> ui, file |-> file, config |-> config,
         selectedUI |-> NewBoilerplateManager(config)]

\* GetAllBoilerplates: the rows of the store, keyed by name
Stores ==
    UNION {[S -> Values] : S \in SUBSET Names}

Rows(store) ==
    [n \in DOMAIN store |-> [Name |-> n, Value |-> store[n], Count |-> 0]]

Init ==
    /\ \E store \in Stores :
          /\ db = Rows(store)
          /\ boilerplates = Rows(store)
    /\ pc = "idle"
    /\ name = <<>>
    /\ before = <<>>
    /\ result = [text |-> <<>>, err |-> NilErr]
    /\ uiCalls = <<>>
    /\ dbCalls = <<>>
    /\ entry = [boilerplates |-> boilerplates, db |-> db]
    /\ runtime = setupRuntime("", NoConfigFile)
    /\ typed = Replies
    /\ offered = <<>>

(***************************************************************************)
(* expandFirst: one rewrite step.                                          *)
(***************************************************************************)
\* strings.ReplaceAll(s, old, new)
RECURSIVE ReplaceAll(_, _, _)
ReplaceAll(s, old, new) ==
    IF Len(s) < Len(old) THEN s
    ELSE IF SubSeq(s, 1, Len(old)) = old
    THEN new \o ReplaceAll(SubSeq(s, Len(old) + 1, Len(s)), old, new)
    ELSE <<Head(s)>> \o ReplaceAll(Tail(s), old, new)

\* faulty variant: every occurrence of the matched token is replaced at once
Substitute_All(value, start, end, replacement) ==
    ReplaceAll(value, Slice(value, start, end), replacement)

\* value[:start] + replacement + value[end:]
Substitute(value, start, end, replacement) ==
    Slice(value, 0, start) \o replacement \o Slice(value, end, Len(value))

\* the key under which expandFirst looks the inclusion up in bm.boilerplates
InclusionKey(outerValue, innerValue) == outerValue

\* faulty variant: empty segments are dropped from the options
SelectArgs_NoEmpty(innerValue) ==
    LET elements == Split(innerValue)
    IN  [prompt |-> Head(elements),
         options |-> SelectSeq(Tail(elements), LAMBDA o : o # <<>>)]

\* elements := strings.Split(innerValue, "|"); prompt := elements[0]; options := elements[1:]
SelectArgs(innerValue) ==
    LET elements == Split(innerValue)
    IN  [prompt |-> Head(elements), options |-> Tail(elements)]

\* the white space strings.TrimSpace strips, among the characters in use
WhiteSpace == {" ", "\n", "\t"}

\* strings.Join(elems, sep)
RECURSIVE Join(_, _)
Join(elems, sep) ==
    IF elems = <<>> THEN <<>>
    ELSE IF Len(elems) = 1 THEN elems[1]
    ELSE elems[1] \o sep \o Join(Tail(elems), sep)

\* strings.TrimSpace(s)
RECURSIVE TrimSpace(_)
TrimSpace(s) ==
    IF s = <<>> THEN s
    ELSE IF Head(s) \in WhiteSpace THEN TrimSpace(Tail(s))
    ELSE IF s[Len(s)] \in WhiteSpace THEN TrimSpace(SubSeq(s, 1, Len(s) - 1))
    ELSE s

\* faulty variant: the label is trimmed before it is shown
PromptArg_Trimmed(innerValue) == TrimSpace(innerValue)

\* bm.ui.Prompt(innerValue)
PromptArg(innerValue) == innerValue

\* runRofi(prompt, input, args) when rofi exits with status 0 after the user
\* entered the text entered: rofi prints it on a line of its own, the output
\* is trimmed, and an empty selection from a non-empty input is an abort
runRofi(input, entered) ==
    LET selected == TrimSpace(entered \o <<"\n">>)
    IN  IF selected = <<>> /\ input # <<>>
        THEN [reply |-> <<>>, err |-> "user aborted"]
        ELSE [reply |-> selected, err |-> "nil"]

\* RofiUI.Select(prompt, choices) and RofiUI.Prompt(prompt)
RofiUI(op, choices, entered) ==
    IF op = "Select"
    THEN IF Len(choices) = 0
         THEN [reply |-> <<>>, err |-> "failed"]
         ELSE runRofi(Join(choices, <<"\n">>), entered)
    ELSE runRofi(<<>>, entered)

\* TermUI.Select(prompt, choices) and TermUI.Prompt(prompt): the value of the
\* form is returned as it is
TermUI(op, choices, entered) == [reply |-> entered, err |-> "nil"]

\* what the selected UI returns when the user enters the text entered
UIReturn(op, choices, entered) ==
    LET r == IF runtime.selectedUI = "RofiUI" THEN RofiUI(op, choices, entered)
             ELSE TermUI(op, choices, entered)
    IN  [entered |-> entered, reply |-> r.reply, err |-> r.err]

\* what the UI may answer to the call the step on value makes, if it makes one:
\* what it returns for a text the user enters (typed text, or one of the
\* options), or an error of its own
Answers(value) ==
    LET loc == FindStringIndex(value)
        failed == [entered : {<<>>}, reply : {<<>>}, err : UIErrors]
    IN  IF loc = <<>> \/ Char(value, loc[1]) = "["
        THEN {[entered |-> <<>>, reply |-> <<>>, err |-> "nil"]}
        ELSE LET innerValue == Slice(value, loc[1] + 2, loc[2] - 2)
             IN  IF IndexRune(innerValue) >= 0
                 THEN LET choices == SelectArgs(innerValue).options
                      IN  {UIReturn("Select", choices, e) :
                              e \in typed \cup Range(choices)} \cup failed
                 ELSE {UIReturn("Prompt", <<>>, e) : e \in typed} \cup failed

\* faulty variant: the empty string is returned when nothing matches
NoVariable_Empty(value) == [text |-> <<>>, err |-> NilErr, calls |-> <<>>]

\* loc == nil: no variable part found, the original string is returned
NoVariable(value) == [text |-> value, err |-> NilErr, calls |-> <<>>]

\* value[start] == '[': substitution by another boilerplate
Inclusion(value, bps, start, end) ==
    LET outerValue == Slice(value, start, end)
        innerValue == Slice(value, start + 2, end - 2)
        key == InclusionKey(outerValue, innerValue)
    IN  IF key \notin DOMAIN bps
        THEN [text |-> <<>>, err |-> ErrUnknownReferenced(innerValue), calls |-> <<>>]
        ELSE [text |-> Substitute(value, start, end, bps[key].Value),
              err |-> NilErr, calls |-> <<>>]

\* the call of bm.ui.Select or bm.ui.Prompt for the prompt at [start, end), with
\* what the UI answers
UICall(value, start, end, answer) ==
    LET innerValue == Slice(value, start + 2, end - 2)
        select == IndexRune(innerValue) >= 0
    IN  [ui      |-> runtime.selectedUI,
         op      |-> IF select THEN "Select" ELSE "Prompt",
         prompt  |-> IF select THEN SelectArgs(innerValue).prompt
                     ELSE PromptArg(innerValue),
         options |-> IF select THEN SelectArgs(innerValue).options ELSE <<>>,
         entered |-> answer.entered,
         reply   |-> answer.reply,
         err     |-> answer.err]

\* s without the characters that open a token
RECURSIVE Unbracketed(_)
Unbracketed(s) ==
    IF s = <<>> THEN s
    ELSE IF Head(s) \in {"[", "{"} THEN Unbracketed(Tail(s))
    ELSE <<Head(s)>> \o Unbracketed(Tail(s))

\* faulty variant: the reply is made literal before it is inserted
UserPrompt_Literal(value, start, end, answer) ==
    IF answer.err # "nil"
    THEN [text |-> <<>>, err |-> ErrUI(answer.err),
          calls |-> <<UICall(value, start, end, answer)>>]
    ELSE [text |-> Substitute(value, start, end, Unbracketed(answer.reply)),
          err |-> NilErr,
          calls |-> <<UICall(value, start, end, answer)>>]

\* value[start] == '{': user prompt
UserPrompt(value, start, end, answer) ==
    IF answer.err # "nil"
    THEN [text |-> <<>>, err |-> ErrUI(answer.err),
          calls |-> <<UICall(value, start, end, answer)>>]
    ELSE [text |-> Substitute(value, start, end, answer.reply), err |-> NilErr,
          calls |-> <<UICall(value, start, end, answer)>>]

\* expandFirst(value), with bps for bm.boilerplates and answer for what bm.ui
\* answers: the returned text and error, and the UI call made
expandFirst(value, bps, answer) ==
    LET loc == FindStringIndex(value)
    IN  IF loc = <<>> THEN NoVariable(value)
        ELSE IF Char(value, loc[1]) = "[" THEN Inclusion(value, bps, loc[1], loc[2])
        ELSE UserPrompt(value, loc[1], loc[2], answer)

(***************************************************************************)
(* The store: the boilerplates table, name TEXT PRIMARY KEY, as a function *)
(* from the names stored to their rows.  execErr: the statement itself     *)
(* fails (the connection, the disk).                                       *)
(***************************************************************************)
\* rows without the row of n
Without(rows, n) == [m \in DOMAIN rows \ {n} |-> rows[m]]

\* rows with the row bp added or replaced
With(rows, bp) ==
    [m \in DOMAIN rows \cup {bp.Name} |-> IF m = bp.Name THEN bp ELSE rows[m]]

\* faulty variant: INSERT OR REPLACE
CreateBoilerplate_Replace(rows, bp, execErr) ==
    IF execErr THEN [db |-> rows, err |-> "exec"]
    ELSE [db |-> With(rows, bp), err |-> "nil"]

\* SQLiteDatabase.CreateBoilerplate(bp): INSERT INTO boilerplates
CreateBoilerplate(rows, bp, execErr) ==
    IF execErr THEN [db |-> rows, err |-> "exec"]
    ELSE IF bp.Name \in DOMAIN rows THEN [db |-> rows, err |-> "constraint"]
    ELSE [db |-> With(rows, bp), err |-> "nil"]

\* SQLiteDatabase.UpdateBoilerplate(bp): UPDATE ... SET value, count WHERE name
UpdateBoilerplate(rows, bp, execErr) ==
    IF execErr THEN [db |-> rows, err |-> "exec"]
    ELSE IF bp.Name \notin DOMAIN rows THEN [db |-> rows, err |-> "unknown boilerplate"]
    ELSE [db |-> [rows EXCEPT ![bp.Name].Value = bp.Value, ![bp.Name].Count = bp.Count],
          err |-> "nil"]

\* SQLiteDatabase.DeleteBoilerplate(name): DELETE ... WHERE name
DeleteBoilerplate(rows, n, execErr) ==
    IF execErr THEN [db |-> rows, err |-> "exec"]
    ELSE IF n \notin DOMAIN rows THEN [db |-> rows, err |-> "unknown boilerplate"]
    ELSE [db |-> Without(rows, n), err |-> "nil"]

\* SQLiteDatabase.GetBoilerplateByName(name): the rows SELECT ... WHERE name = ? gives
GetBoilerplateByName(rows, n) ==
    IF n \in DOMAIN rows THEN [found |-> {rows[n]}, err |-> "nil"]
    ELSE [found |-> {}, err |-> "unknown boilerplate"]

(***************************************************************************)
(* The usage count.                                                        *)
(***************************************************************************)
\* faulty variant: the UPDATE has no WHERE clause
IncBoilerplateCount_All(rows, n, execErr) ==
    IF execErr THEN [db |-> rows, err |-> "exec"]
    ELSE IF n \notin DOMAIN rows THEN [db |-> rows, err |-> "unknown boilerplate"]
    ELSE [db |-> [m \in DOMAIN rows |-> [rows[m] EXCEPT !.Count = @ + 1]], err |-> "nil"]

\* faulty variant: a name that is not stored gets a row with count 1
IncBoilerplateCount_Upsert(rows, n, execErr) ==
    IF execErr THEN [db |-> rows, err |-> "exec"]
    ELSE IF n \notin DOMAIN rows
    THEN [db |-> With(rows, [Name |-> n, Value |-> <<>>, Count |-> 1]), err |-> "nil"]
    ELSE [db |-> [rows EXCEPT ![n].Count = @ + 1], err |-> "nil"]

\* SQLiteDatabase.IncBoilerplateCount(name); execErr: the UPDATE itself fails
IncBoilerplateCount(rows, n, execErr) ==
    IF execErr THEN [db |-> rows, err |-> "exec"]
    ELSE IF n \notin DOMAIN rows THEN [db |-> rows, err |-> "unknown boilerplate"]
    ELSE [db |-> [rows EXCEPT ![n].Count = @ + 1], err |-> "nil"]

\* faulty variant: the count is written with UpdateBoilerplate from a record that
\* carries the name and the count only
incrementBoilerplateCount_Update(bps, rows, n, execErr) ==
    IF n \notin DOMAIN bps
    THEN [boilerplates |-> bps, db |-> rows, err |-> "unknown boilerplate",
          calls |-> <<>>]
    ELSE LET r == UpdateBoilerplate(rows,
                      [Name |-> n, Value |-> <<>>, Count |-> bps[n].Count + 1], execErr)
         IN  [boilerplates |-> [bps EXCEPT ![n].Count = @ + 1],
              db |-> r.db, err |-> r.err,
              calls |-> <<[op |-> "IncBoilerplateCount", name |-> n, err |-> r.err]>>]

\* bm.incrementBoilerplateCount(name)
incrementBoilerplateCount(bps, rows, n, execErr) ==
    IF n \notin DOMAIN bps
    THEN [boilerplates |-> bps, db |-> rows, err |-> "unknown boilerplate",
          calls |-> <<>>]
    ELSE LET r == IncBoilerplateCount(rows, n, execErr)
         IN  [boilerplates |-> [bps EXCEPT ![n].Count = @ + 1],
              db |-> r.db, err |-> r.err,
              calls |-> <<[op |-> "IncBoilerplateCount", name |-> n, err |-> r.err]>>]

RECURSIVE SumCounts(_, _)
SumCounts(bps, S) ==
    IF S = {} THEN 0
    ELSE LET n == CHOOSE x \in S : TRUE
         IN  bps[n].Count + SumCounts(bps, S \ {n})

(***************************************************************************)
(* Expand.                                                                 *)
(***************************************************************************)
\* faulty variant: a failed increment fails the expansion
ExpandReturn_Strict(after, incErr) ==
    IF incErr = "nil" THEN [text |-> after, err |-> NilErr]
    ELSE [text |-> <<>>, err |-> [kind |-> "increment", arg |-> <<incErr>>]]

\* what Expand returns once the loop has broken: the increment's error is only
\* printed as a warning
ExpandReturn(after, incErr) == [text |-> after, err |-> NilErr]

\* bm.Expand(n) is called: the lookup of the name, up to the loop
Expand(n) ==
    /\ pc # "loop"
    /\ SumCounts(boilerplates, DOMAIN boilerplates) < MaxExpands
    /\ name' = n
    /\ uiCalls' = <<>>
    /\ dbCalls' = <<>>
    /\ entry' = [boilerplates |-> boilerplates, db |-> db]
    /\ IF n \notin DOMAIN boilerplates
       THEN /\ pc' = "returned"
            /\ result' = [text |-> <<>>, err |-> ErrUnknown(n)]
            /\ before' = <<>>
       ELSE /\ pc' = "loop"
            /\ result' = [text |-> <<>>, err |-> NilErr]
            /\ before' = boilerplates[n].Value
    /\ UNCHANGED <<boilerplates, db, runtime, typed>>

\* faulty variant: Expand returns without counting the use
ExpandBreak_NoCount(after, execErr) ==
    /\ pc' = "returned"
    /\ result' = ExpandReturn(after, "nil")
    /\ UNCHANGED <<boilerplates, db, dbCalls, before>>

\* the loop has broken: the count is incremented and Expand returns
ExpandBreak(after, execErr) ==
    LET inc == incrementBoilerplateCount(boilerplates, db, name, execErr)
    IN  /\ pc' = "returned"
        /\ boilerplates' = inc.boilerplates
        /\ db' = inc.db
        /\ dbCalls' = dbCalls \o inc.calls
        /\ result' = ExpandReturn(after, inc.err)
        /\ UNCHANGED before

\* one iteration of Expand's loop and, when the loop breaks, the rest of Expand
ExpandLoop ==
    /\ pc = "loop"
    /\ \E answer \in Answers(before) :
          LET r == expandFirst(before, boilerplates, answer)
          IN  /\ Len(r.text) <= MaxLen
              /\ Len(uiCalls) + Len(r.calls) <= MaxAsk
              /\ uiCalls' = uiCalls \o r.calls
              /\ IF r.err # NilErr
                 THEN /\ pc' = "returned"
                      /\ result' = [text |-> <<>>, err |-> r.err]
                      /\ UNCHANGED <<boilerplates, db, before, dbCalls>>
                 ELSE IF before = r.text
                 THEN \E execErr \in BOOLEAN : ExpandBreak(r.text, execErr)
                 ELSE /\ before' = r.text
                      /\ UNCHANGED <<boilerplates, db, pc, result, dbCalls>>
    /\ UNCHANGED <<name, entry, runtime, typed, offered>>

Next ==
    \/ \E n \in Names : Expand(n) /\ UNCHANGED offered
    \/ ExpandLoop

Spec == Init /\ [][Next]_vars

(***************************************************************************)
(* The engine over a session: Delete beside Expand, on bodies that         *)
(* exercise the scan.                                                      *)
(***************************************************************************)
EngineNames == {NameA, NameBrA}

ValSelfA    == <<"[", "[", "A", "]", "]">>
ValBadDash  == <<"[", "[", "a", "-", "b", "]", "]">>
ValBadPipe  == <<"[", "[", "a", "|", "b", "]", "]">>
ValBadSpace == <<"[", "[", " ", "A", "]", "]">>
ValBadEmpty == <<"[", "[", "]", "]">>
ValBadAsk   == <<"[", "[", "a", "-", "b", "]", "]", "{", "{", "n", "}", "}">>
ValBrace    == <<"{", "{", "a", "}", "b", "}", "}">>
ValBraceEnd == <<"{", "{", "a", "}", "}", "}">>
ValOpen     == <<"{", "{", "{", "a", "}", "}">>
ValPadded   == <<"{", "{", " ", "a", " ", "b", " ", "}", "}">>
ValNested   == <<"{", "{", "[", "[", "A", "]", "]", "}", "}">>
ValRefAsk   == <<"[", "[", "A", "]", "]", "{", "{", "n", "}", "}">>
ValAskRef   == <<"{", "{", "n", "}", "}", "[", "[", "A", "]", "]">>
ValInRef    == <<"[", "[", "{", "{", "n", "}", "}", "]", "]">>
ValAskQ     == <<"{", "{", "q", "}", "}">>

EngineValues ==
    {ValSelfA, ValBadDash, ValBadPipe, ValBadSpace, ValBadEmpty, ValBadAsk, ValBrace,
     ValBraceEnd, ValOpen, ValPadded, ValNested, ValRefAsk, ValAskRef, ValInRef,
     ValAskMiss, ValAskQ}

EngineStores ==
    UNION {[S -> EngineValues] : S \in SUBSET EngineNames}

InitEngine ==
    /\ \E store \in EngineStores :
          /\ db = Rows(store)
          /\ boilerplates = Rows(store)
    /\ pc = "idle"
    /\ name = <<>>
    /\ before = <<>>
    /\ result = [text |-> <<>>, err |-> NilErr]
    /\ uiCalls = <<>>
    /\ dbCalls = <<>>
    /\ entry = [boilerplates |-> boilerplates, db |-> db]
    /\ runtime = setupRuntime("", NoConfigFile)
    /\ typed = Replies
    /\ offered = <<>>

\* errors.New("empty boilerplate name")
ErrEmptyName == [kind |-> "empty boilerplate name", arg |-> <<>>]

\* ErrBoilerplateUnknown
ErrBoilerplateUnknown == [kind |-> "boilerplate not found", arg |-> <<>>]

\* the error a store call returned, handed on as it is
ErrStore(e) == [kind |-> "store", arg |-> <<e>>]

\* Engine.Delete(n): what it returns, what becomes of the collection and of
\* the store, and the store call made
EngineDelete(bps, rows, n, execErr) ==
    IF n = <<>>
    THEN [boilerplates |-> bps, db |-> rows, err |-> ErrEmptyName, calls |-> <<>>]
    ELSE IF n \notin DOMAIN bps
    THEN [boilerplates |-> bps, db |-> rows, err |-> ErrBoilerplateUnknown, calls |-> <<>>]
    ELSE LET r == DeleteBoilerplate(rows, n, execErr)
         IN  [boilerplates |-> bps, db |-> r.db,
              err |-> IF r.err = "nil" THEN NilErr ELSE ErrStore(r.err),
              calls |-> <<[op |-> "DeleteBoilerplate", name |-> n, err |-> r.err]>>]

\* Delete(n) is called and returns
Delete(n) ==
    /\ pc # "loop"
    /\ \E execErr \in BOOLEAN :
          LET r == EngineDelete(boilerplates, db, n, execErr)
          IN  /\ boilerplates' = r.boilerplates
              /\ db' = r.db
              /\ result' = [text |-> <<>>, err |-> r.err]
              /\ dbCalls' = r.calls
    /\ pc' = "idle"
    /\ name' = n
    /\ before' = <<>>
    /\ uiCalls' = <<>>
    /\ entry' = [boilerplates |-> boilerplates, db |-> db]
    /\ UNCHANGED <<runtime, typed, offered>>

NextEngine ==
    \/ \E n \in EngineNames : Expand(n) /\ UNCHANGED offered
    \/ ExpandLoop
    \/ \E n \in EngineNames \cup {<<>>} : Delete(n)

SpecEngine == InitEngine /\ [][NextEngine]_vars

(***************************************************************************)
(* Expansions under every --ui flag and config file.                       *)
(***************************************************************************)
ValSelectOne == <<"{", "{", "P", "|", "}", "}">>
ValBar       == <<"{", "{", "|", "}", "}">>

UIValues == {ValCore, ValPrompt, ValSelect, ValSelectOne, ValBar}

InitUI ==
    /\ \E store \in UNION {[S -> UIValues] : S \in SUBSET {NameA}} :
          /\ db = Rows(store)
          /\ boilerplates = Rows(store)
    /\ pc = "idle"
    /\ name = <<>>
    /\ before = <<>>
    /\ result = [text |-> <<>>, err |-> NilErr]
    /\ uiCalls = <<>>
    /\ dbCalls = <<>>
    /\ entry = [boilerplates |-> boilerplates, db |-> db]
    /\ \E ui \in UIFlags, file \in ConfigFiles : runtime = setupRuntime(ui, file)
    /\ typed = Replies
    /\ offered = <<>>

SpecUI == InitUI /\ [][Next]_vars

(***************************************************************************)
(* The store on its own: a session of direct calls of the Database         *)
(* interface, as the integration tests make them.                          *)
(***************************************************************************)
StoreValues == {ValCore, ValPrompt}

\* the records handed to CreateBoilerplate and UpdateBoilerplate
StoreRecords == [Name : EngineNames, Value : StoreValues, Count : 0..1]

InitStore ==
    /\ \E store \in UNION {[S -> StoreValues] : S \in SUBSET EngineNames} :
          /\ db = Rows(store)
          /\ boilerplates = Rows(store)
    /\ pc = "idle"
    /\ name = <<>>
    /\ before = <<>>
    /\ result = [text |-> <<>>, err |-> NilErr]
    /\ uiCalls = <<>>
    /\ dbCalls = <<>>
    /\ entry = [boilerplates |-> boilerplates, db |-> db]
    /\ runtime = setupRuntime("", NoConfigFile)
    /\ typed = Replies
    /\ offered = <<>>

\* a call of the store that returned r: the table becomes r.db and the call is
\* logged; entry.db keeps the table as the last call other than an increment
\* left it
StoreCall(op, n, r) ==
    /\ Len(dbCalls) < MaxCalls
    /\ db' = r.db
    /\ dbCalls' = Append(dbCalls, [op |-> op, name |-> n, err |-> r.err])
    /\ entry' = IF op = "IncBoilerplateCount" THEN entry ELSE [entry EXCEPT !.db = r.db]
    /\ UNCHANGED <<boilerplates, pc, name, before, result, uiCalls, runtime, typed, offered>>

DbCreate(bp) ==
    \E execErr \in BOOLEAN :
        StoreCall("CreateBoilerplate", bp.Name, CreateBoilerplate(db, bp, execErr))

DbUpdate(bp) ==
    \E execErr \in BOOLEAN :
        StoreCall("UpdateBoilerplate", bp.Name, UpdateBoilerplate(db, bp, execErr))

DbDelete(n) ==
    \E execErr \in BOOLEAN :
        StoreCall("DeleteBoilerplate", n, DeleteBoilerplate(db, n, execErr))

DbInc(n) ==
    \E execErr \in BOOLEAN :
        StoreCall("IncBoilerplateCount", n, IncBoilerplateCount(db, n, execErr))

NextStore ==
    \/ \E bp \in StoreRecords : DbCreate(bp)
    \/ \E bp \in StoreRecords : DbUpdate(bp)
    \/ \E n \in EngineNames : DbDelete(n)
    \/ \E n \in EngineNames : DbInc(n)

SpecStore == InitStore /\ [][NextStore]_vars

(***************************************************************************)
(* boilerplateExpand without a name: a session of selections and           *)
(* expansions (expand --forever).                                          *)
(***************************************************************************)
\* the orders a set can be listed in
Orders(S) ==
    {o \in [1..Cardinality(S) -> S] : \A i, j \in DOMAIN o : o[i] = o[j] => i = j}

\* faulty variant: the list is shown in the order the map yields it
SelectBoilerplate_Unsorted(bps) ==
    LET lists == {[k \in DOMAIN o |-> [Name |-> o[k], Count |-> bps[o[k]].Count]] :
                     o \in Orders(DOMAIN bps)}
    IN  UNION {[offered : {l}, name : {l[k].Name : k \in DOMAIN l}, err : {"nil"}]
                  \cup [offered : {l}, name : {<<>>}, err : {"user aborted"}] :
               l \in lists}

\* bm.ui.SelectBoilerplate(bps): the list shown, sorted by bps[i].Count >
\* bps[j].Count from a map whose iteration order is unspecified, and the name
\* the user picks from it, or an abort
SelectBoilerplate(bps) ==
    LET sorted == {o \in Orders(DOMAIN bps) :
                      \A i, j \in DOMAIN o : i < j => bps[o[i]].Count >= bps[o[j]].Count}
        lists == {[k \in DOMAIN o |-> [Name |-> o[k], Count |-> bps[o[k]].Count]] :
                     o \in sorted}
    IN  UNION {[offered : {l}, name : {l[k].Name : k \in DOMAIN l}, err : {"nil"}]
                  \cup [offered : {l}, name : {<<>>}, err : {"user aborted"}] :
               l \in lists}

\* one iteration of boilerplateExpand's loop up to the loop of bm.Expand: the
\* selection, and the call of bm.Expand with the name picked; an error of
\* either ends the session
boilerplateExpand ==
    /\ pc = "idle" \/ (pc = "returned" /\ result.err = NilErr)
    /\ \E sel \in SelectBoilerplate(boilerplates) :
          /\ offered' = sel.offered
          /\ IF sel.err # "nil"
             THEN /\ pc' = "exited"
                  /\ UNCHANGED <<boilerplates, db, name, before, result, uiCalls,
                                 dbCalls, entry, runtime, typed>>
             ELSE Expand(sel.name)

ForeverNames == {NameA, NameB}

ForeverValues == {ValCore, ValPrompt, ValInclA}

\* the counts the rows of the store start a session with
StartCounts == 0..1

InitForever ==
    /\ \E S \in SUBSET ForeverNames \ {{}} :
          \E store \in [S -> ForeverValues], count \in [S -> StartCounts] :
              /\ db = [n \in S |-> [Name |-> n, Value |-> store[n], Count |-> count[n]]]
              /\ boilerplates = db
    /\ pc = "idle"
    /\ name = <<>>
    /\ before = <<>>
    /\ result = [text |-> <<>>, err |-> NilErr]
    /\ uiCalls = <<>>
    /\ dbCalls = <<>>
    /\ entry = [boilerplates |-> boilerplates, db |-> db]
    /\ runtime = setupRuntime("", NoConfigFile)
    /\ typed = Replies
    /\ offered = <<>>

NextForever ==
    \/ boilerplateExpand
    \/ ExpandLoop

SpecForever == InitForever /\ [][NextForever]_vars

(***************************************************************************)
(* Expansions in which the user enters text that holds tokens.             *)
(***************************************************************************)
ReplyValues == {ValPrompt, ValSelect, ValSelfA, ValAskQ}

\* what the user enters: plain text, a template reference, a prompt token
TokenReplies == {Reply1, ValSelfA, ValAskQ}

InitReply ==
    /\ \E store \in UNION {[S -> ReplyValues] : S \in SUBSET EngineNames} :
          /\ db = Rows(store)
          /\ boilerplates = Rows(store)
    /\ pc = "idle"
    /\ name = <<>>
    /\ before = <<>>
    /\ result = [text |-> <<>>, err |-> NilErr]
    /\ uiCalls = <<>>
    /\ dbCalls = <<>>
    /\ entry = [boilerplates |-> boilerplates, db |-> db]
    /\ runtime = setupRuntime("", NoConfigFile)
    /\ typed = TokenReplies
    /\ offered = <<>>

NextReply ==
    \/ \E n \in EngineNames : Expand(n) /\ UNCHANGED offered
    \/ ExpandLoop

SpecReply == InitReply /\ [][NextReply]_vars

(***************************************************************************)
(* Engine.Add and Engine.Edit, with expansions and deletions around them.  *)
(***************************************************************************)
\* errors.New("empty boilerplate value")
ErrEmptyValue == [kind |-> "empty boilerplate value", arg |-> <<>>]

\* ErrBoilerplateAlreadyExist
ErrBoilerplateAlreadyExist == [kind |-> "boilerplate already exists", arg |-> <<>>]

\* Engine.Add(n, v): what it returns, what becomes of the collection and of
\* the store, and the store call made; the new template is put in the
\* collection before the store is called
EngineAdd(bps, rows, n, v, execErr) ==
    IF n = <<>>
    THEN [boilerplates |-> bps, db |-> rows, err |-> ErrEmptyName, calls |-> <<>>]
    ELSE IF v = <<>>
    THEN [boilerplates |-> bps, db |-> rows, err |-> ErrEmptyValue, calls |-> <<>>]
    ELSE IF n \in DOMAIN bps
    THEN [boilerplates |-> bps, db |-> rows, err |-> ErrBoilerplateAlreadyExist,
          calls |-> <<>>]
    ELSE LET bp == [Name |-> n, Value |-> v, Count |-> 0]
             r == CreateBoilerplate(rows, bp, execErr)
         IN  [boilerplates |-> With(bps, bp), db |-> r.db,
              err |-> IF r.err = "nil" THEN NilErr ELSE ErrStore(r.err),
              calls |-> <<[op |-> "CreateBoilerplate", name |-> n, err |-> r.err]>>]

\* Engine.Edit(n, v): the same; bp points into the collection, so bp.Value = v
\* changes the collection before the store is called
EngineEdit(bps, rows, n, v, execErr) ==
    IF n = <<>>
    THEN [boilerplates |-> bps, db |-> rows, err |-> ErrEmptyName, calls |-> <<>>]
    ELSE IF v = <<>>
    THEN [boilerplates |-> bps, db |-> rows, err |-> ErrEmptyValue, calls |-> <<>>]
    ELSE IF n \notin DOMAIN bps
    THEN [boilerplates |-> bps, db |-> rows, err |-> ErrBoilerplateUnknown, calls |-> <<>>]
    ELSE LET bp == [bps[n] EXCEPT !.Value = v]
             r == UpdateBoilerplate(rows, bp, execErr)
         IN  [boilerplates |-> [bps EXCEPT ![n] = bp], db |-> r.db,
              err |-> IF r.err = "nil" THEN NilErr ELSE ErrStore(r.err),
              calls |-> <<[op |-> "UpdateBoilerplate", name |-> n, err |-> r.err]>>]

\* an operation of the engine that is not an expansion has been called and
\* has returned r
EngineReturn(n, r) ==
    /\ pc # "loop"
    /\ boilerplates' = r.boilerplates
    /\ db' = r.db
    /\ result' = [text |-> <<>>, err |-> r.err]
    /\ dbCalls' = r.calls
    /\ pc' = "idle"
    /\ name' = n
    /\ before' = <<>>
    /\ uiCalls' = <<>>
    /\ entry' = [boilerplates |-> boilerplates, db |-> db]
    /\ UNCHANGED <<runtime, typed, offered>>

\* Add(n, v) is called and returns
Add(n, v) ==
    \E execErr \in BOOLEAN : EngineReturn(n, EngineAdd(boilerplates, db, n, v, execErr))

\* Edit(n, v) is called and returns
Edit(n, v) ==
    \E execErr \in BOOLEAN : EngineReturn(n, EngineEdit(boilerplates, db, n, v, execErr))

ManageNames == EngineNames \cup {<<>>}

ManageValues == {ValCore, ValPrompt, <<>>}

InitManage ==
    /\ \E store \in UNION {[S -> {ValCore, ValPrompt}] : S \in SUBSET EngineNames} :
          /\ db = Rows(store)
          /\ boilerplates = Rows(store)
    /\ pc = "idle"
    /\ name = <<>>
    /\ before = <<>>
    /\ result = [text |-> <<>>, err |-> NilErr]
    /\ uiCalls = <<>>
    /\ dbCalls = <<>>
    /\ entry = [boilerplates |-> boilerplates, db |-> db]
    /\ runtime = setupRuntime("", NoConfigFile)
    /\ typed = {Reply1}
    /\ offered = <<>>

NextManage ==
    \/ \E n \in ManageNames, v \in ManageValues : Add(n, v)
    \/ \E n \in ManageNames, v \in ManageValues : Edit(n, v)
    \/ \E n \in EngineNames : Delete(n)
    \/ \E n \in EngineNames : Expand(n) /\ UNCHANGED offered
    \/ ExpandLoop

SpecManage == InitManage /\ [][NextManage]_vars

(***************************************************************************)
(* The token grammar as the specification words it, on whole words w, and   *)
(* what the properties below are stated with.                              *)
(***************************************************************************)
\* t[i..j] is [[ident]]: the delimiters around one or more of A-Z a-z 0-9 _
IsInclusionToken(t, i, j) ==
    /\ j >= i + 4
    /\ t[i] = "[" /\ t[i + 1] = "[" /\ t[j - 1] = "]" /\ t[j] = "]"
    /\ \A k \in (i + 2)..(j - 2) : t[k] \in IdentChars

\* t[i..j] is {{text}}: the delimiters around one or more characters, none a }
IsPromptToken(t, i, j) ==
    /\ j >= i + 4
    /\ t[i] = "{" /\ t[i + 1] = "{" /\ t[j - 1] = "}" /\ t[j] = "}"
    /\ \A k \in (i + 2)..(j - 2) : t[k] # "}"

\* the spans <<i, j>> of t (1-based, inclusive) that are tokens
InclusionSpans(t) ==
    UNION {{<<i, j>> : j \in {j \in (i + 4)..Len(t) : IsInclusionToken(t, i, j)}} :
              i \in {i \in 1..(Len(t) - 4) : t[i] = "["}}

PromptSpans(t) ==
    UNION {{<<i, j>> : j \in {j \in (i + 4)..Len(t) : IsPromptToken(t, i, j)}} :
              i \in {i \in 1..(Len(t) - 4) : t[i] = "{"}}

TokenSpans(t) == InclusionSpans(t) \cup PromptSpans(t)

HasToken(t) == TokenSpans(t) # {}

\* the token of t that starts first
FirstSpan(t) == CHOOSE ij \in TokenSpans(t) : \A kl \in TokenSpans(t) : ij[1] <= kl[1]

\* the text between the delimiters of the span ij of t
Inner(t, ij) == SubSeq(t, ij[1] + 2, ij[2] - 2)

\* the identifiers t refers to
Refs(t) == {Inner(t, ij) : ij \in InclusionSpans(t)}

\* the body of the requested template when Expand was called
Body == entry.boilerplates[name].Value

Known == name \in DOMAIN entry.boilerplates

Returned == pc = "returned"

Succeeded == Returned /\ result.err = NilErr

\* usage counts, in memory and in the store, are what they were at the call
CountsUnchanged ==
    /\ boilerplates = entry.boilerplates
    /\ db = entry.db

(***************************************************************************)
(* C1. Template references are flattened end to end: when every reference  *)
(* reachable from the requested template names a stored template, the      *)
(* reference graph is acyclic and no body holds a prompt token, Expand     *)
(* succeeds and returns the body with every [[id]] replaced by the         *)
(* flattened body of the template named id.                                *)
(***************************************************************************)
\* every reference reachable from t within d levels names a stored template
RECURSIVE Resolves(_, _)
Resolves(t, d) ==
    \A id \in Refs(t) :
        /\ d > 0
        /\ id \in DOMAIN entry.boilerplates
        /\ Resolves(entry.boilerplates[id].Value, d - 1)

\* t with every reference replaced by the flattened body of the template it names
RECURSIVE Flat(_)
Flat(t) ==
    IF InclusionSpans(t) = {} THEN t
    ELSE LET ij == FirstSpan(t)
         IN  SubSeq(t, 1, ij[1] - 1)
                \o Flat(entry.boilerplates[Inner(t, ij)].Value)
                \o Flat(SubSeq(t, ij[2] + 1, Len(t)))

Flattenable ==
    /\ Known
    /\ \A n \in DOMAIN entry.boilerplates : PromptSpans(entry.boilerplates[n].Value) = {}
    /\ Resolves(Body, Cardinality(DOMAIN entry.boilerplates))

\* C1: with every reachable reference stored, no cycle and no prompt token,
\* Expand succeeds with the fully flattened body
C1_Flattened ==
    (Returned /\ Flattenable) =>
        /\ result.err = NilErr
        /\ result.text = Flat(Body)

(***************************************************************************)
(* C2. For a stored template whose body holds no reference token, Expand   *)
(* returns the body unchanged, without error and without any call of the   *)
(* UI; and the scan step applied to token-free text returns that text.     *)
(***************************************************************************)
\* C2: a token-free body is returned unchanged with no UI call, and the scan
\* step leaves token-free text as it is
C2_TokenFree ==
    /\ (Returned /\ Known /\ ~HasToken(Body)) =>
          /\ result = [text |-> Body, err |-> NilErr]
          /\ uiCalls = <<>>
    /\ (pc = "loop" /\ ~HasToken(before)) =>
          \A answer \in Answers(before) :
              expandFirst(before, boilerplates, answer)
                  = [text |-> before, err |-> NilErr, calls |-> <<>>]

C2_Witness ==
    /\ Returned /\ Known /\ ~HasToken(Body)
    /\ dbCalls # <<>>

(***************************************************************************)
(* C3. Expand of a name that is not in the collection fails with the       *)
(* unknown-boilerplate error for that name and has no side effect: no UI   *)
(* call, no store call, no usage count changed in memory or in the store.  *)
(***************************************************************************)
\* C3: an unknown name fails with the unknown-boilerplate error and no side effect
C3_UnknownName ==
    (Returned /\ ~Known) =>
        /\ result.text = <<>>
        /\ result.err.kind = "unknown boilerplate"
        /\ result.err.arg = name
        /\ uiCalls = <<>>
        /\ dbCalls = <<>>
        /\ CountsUnchanged

C3_Witness ==
    /\ Returned /\ ~Known
    /\ DOMAIN boilerplates # {}

(***************************************************************************)
(* C4. When the first token reached is a reference [[id]] and no template  *)
(* named id is stored, Expand aborts with the unknown-referenced error     *)
(* naming id, returns the empty string, and no usage count changes.        *)
(***************************************************************************)
FirstIsMissingRef(t, bps) ==
    /\ HasToken(t)
    /\ FirstSpan(t) \in InclusionSpans(t)
    /\ Inner(t, FirstSpan(t)) \notin DOMAIN bps

\* C4: a step whose first token refers to a template that is not stored aborts
\* with the error naming it, the empty string and no count changed
C4_MissingReference ==
    [][(pc = "loop" /\ FirstIsMissingRef(before, boilerplates)) =>
          /\ pc' = "returned"
          /\ result'.text = <<>>
          /\ result'.err.kind = "unknown referenced boilerplate"
          /\ result'.err.arg = Inner(before, FirstSpan(before))
          /\ boilerplates' = entry.boilerplates
          /\ db' = entry.db]_vars

(***************************************************************************)
(* C5. A successful Expand raises the usage count of the requested         *)
(* template by exactly one (in memory; in the store too when the store's   *)
(* increment succeeds, and by nothing there otherwise) and leaves every    *)
(* other template's count as it was, however many templates were pulled    *)
(* in; a failed Expand changes no usage count.                             *)
(***************************************************************************)
\* C5: a success counts the requested template once and nothing else; a failure
\* counts nothing
C5_CountOnce ==
    Returned =>
        /\ DOMAIN boilerplates = DOMAIN entry.boilerplates
        /\ DOMAIN db = DOMAIN entry.db
        /\ \A n \in DOMAIN boilerplates :
              boilerplates[n].Count = entry.boilerplates[n].Count
                  + (IF Succeeded /\ n = name THEN 1 ELSE 0)
        /\ \A n \in DOMAIN db :
              db[n].Count = entry.db[n].Count
                  + (IF Succeeded /\ n = name /\ dbCalls[1].err = "nil" THEN 1 ELSE 0)
        /\ Succeeded => (Len(dbCalls) = 1 /\ dbCalls[1].name = name)
        /\ ~Succeeded => dbCalls = <<>>

\* a success that pulled in another template
C5_Witness ==
    /\ Succeeded
    /\ Body = ValInclA
    /\ name # NameBrA
    /\ boilerplates[name].Count = 1
    /\ db[name].Count = 1
    /\ boilerplates[NameBrA].Count = 0

(***************************************************************************)
(* C6. When the store's increment fails after the loop has finished,       *)
(* Expand still returns the resolved text with a nil error.                *)
(***************************************************************************)
IncrementFailed == dbCalls # <<>> /\ dbCalls[1].err # "nil"

\* C6: a failed increment leaves the returned text and the nil error as they are
C6_IncrementFailureSwallowed ==
    (Returned /\ IncrementFailed) =>
        /\ result.err = NilErr
        /\ result.text = before

C6_Witness ==
    /\ Returned /\ IncrementFailed
    /\ uiCalls # <<>>
    /\ result.text # Body

(***************************************************************************)
(* C7. For a prompt token whose inner text holds '|', Select is called     *)
(* with the text before the first '|' as label and the remaining           *)
(* '|'-separated segments, in order and empty ones included, as choices;   *)
(* the choice Select returns replaces the token.                           *)
(***************************************************************************)
RECURSIVE JoinPipe(_)
JoinPipe(segs) ==
    IF Len(segs) = 1 THEN segs[1]
    ELSE segs[1] \o <<"|">> \o JoinPipe(Tail(segs))

\* the call just made: uiCalls grew by one
Called == Len(uiCalls') = Len(uiCalls) + 1

LastCall == uiCalls'[Len(uiCalls')]

\* the text the step leaves: the loop's next text, or the text returned
Landed(t) ==
    \/ pc' = "loop" /\ before' = t
    \/ pc' = "returned" /\ result' = [text |-> t, err |-> NilErr]

\* before with its first token replaced by reply
FirstReplaced(reply) ==
    SubSeq(before, 1, FirstSpan(before)[1] - 1) \o reply
        \o SubSeq(before, FirstSpan(before)[2] + 1, Len(before))

\* C7: a prompt with '|' calls Select with the label and every segment after it,
\* and the choice replaces the token
C7_SelectCall ==
    [][(Called /\ "|" \in Range(Inner(before, FirstSpan(before)))) =>
          /\ LastCall.op = "Select"
          /\ "|" \notin Range(LastCall.prompt)
          /\ Len(LastCall.options) >= 1
          /\ \A k \in 1..Len(LastCall.options) : "|" \notin Range(LastCall.options[k])
          /\ JoinPipe(<<LastCall.prompt>> \o LastCall.options)
                = Inner(before, FirstSpan(before))
          /\ before = ValSelect =>
                (LastCall.prompt = <<"P">> /\ LastCall.options = << <<"r">>, <<"g">> >>)
          /\ before = ValSelectE =>
                (LastCall.prompt = <<"Q">>
                    /\ LastCall.options = << <<>>, <<"r">>, <<>> >>)
          /\ LastCall.err = "nil" => Landed(FirstReplaced(LastCall.reply))]_vars

\* Select was given an empty last choice, and its answer is what Expand returned
C7_Witness ==
    /\ Succeeded
    /\ Len(uiCalls) = 1
    /\ uiCalls[1].op = "Select"
    /\ uiCalls[1].options = << <<>>, <<"r">>, <<>> >>
    /\ result.text = uiCalls[1].reply
    /\ result.text = <<"r">>

(***************************************************************************)
(* C8. For a prompt token whose inner text holds no '|', Prompt is called  *)
(* with the whole inner text as label, surrounding whitespace included,    *)
(* and the reply is inserted as returned in place of the token.            *)
(***************************************************************************)
\* C8: a prompt without '|' calls Prompt with the whole inner text, and the
\* reply replaces the token as returned
C8_PromptCall ==
    [][(Called /\ "|" \notin Range(Inner(before, FirstSpan(before)))) =>
          /\ LastCall.op = "Prompt"
          /\ FirstSpan(before) \in PromptSpans(before)
          /\ LastCall.prompt = Inner(before, FirstSpan(before))
          /\ LastCall.err = "nil" => Landed(FirstReplaced(LastCall.reply))
          /\ (before = ValPrompt /\ LastCall.err = "nil") =>
                (LastCall.prompt = <<"n">>
                    /\ Landed(<<"h">> \o LastCall.reply \o <<"!">>))]_vars

\* a label and a reply with whitespace around them
C8_Witness ==
    /\ pc = "loop"
    /\ Len(uiCalls) = 1
    /\ uiCalls[1].op = "Prompt"
    /\ uiCalls[1].prompt = <<" ", "n", " ">>
    /\ uiCalls[1].reply = ReplyPad
    /\ before = ReplyPad \o <<"[", "[", "M", "]", "]">>

(***************************************************************************)
(* C9. Answers are not cached within one expansion: a body with the same   *)
(* prompt token n times causes n calls, one per occurrence, and each       *)
(* occurrence is replaced by the reply to its own call.                    *)
(***************************************************************************)
\* the prompt tokens of t, counted left to right
RECURSIVE PromptCount(_)
PromptCount(t) ==
    IF PromptSpans(t) = {} THEN 0
    ELSE 1 + PromptCount(SubSeq(t, FirstSpan(t)[2] + 1, Len(t)))

\* C9: one UI call per prompt occurrence, each occurrence replaced by the reply
\* to its own call
C9_NoCaching ==
    /\ (/\ Succeeded
        /\ InclusionSpans(Body) = {}
        /\ \A k \in 1..Len(uiCalls) : ~HasToken(uiCalls[k].reply)) =>
            Len(uiCalls) = PromptCount(Body)
    /\ (Succeeded /\ Body = ValTwice) =>
          /\ Len(uiCalls) = 2
          /\ \A k \in 1..2 : uiCalls[k].op = "Prompt" /\ uiCalls[k].prompt = <<"x">>
          /\ result.text = uiCalls[1].reply \o <<"&">> \o uiCalls[2].reply

C9_Witness ==
    /\ Succeeded /\ Body = ValTwice
    /\ uiCalls[1].reply = Reply1
    /\ uiCalls[2].reply = ReplyPad
    /\ result.text = <<"1", "&", " ", "2", " ">>

(***************************************************************************)
(* C10. When a Select or Prompt call returns an error, Expand stops at     *)
(* once: no further UI call is made, that error is returned with the       *)
(* empty string, and no usage count changes.                               *)
(***************************************************************************)
\* C10: a UI error ends the expansion at once with that error, the empty
\* string and no count changed
C10_UIFailureAborts ==
    \A k \in 1..Len(uiCalls) :
        uiCalls[k].err # "nil" =>
            /\ k = Len(uiCalls)
            /\ Returned
            /\ result.text = <<>>
            /\ result.err.kind = "ui"
            /\ result.err.arg = <<uiCalls[k].err>>
            /\ dbCalls = <<>>
            /\ CountsUnchanged

\* the second prompt of a body was cancelled
C10_Witness ==
    /\ Returned
    /\ Len(uiCalls) = 2
    /\ uiCalls[1].err = "nil"
    /\ uiCalls[2].err = "user aborted"
    /\ result.err.kind = "ui"

(***************************************************************************)
(* C11. Whenever Expand returns successfully, the returned text holds no   *)
(* substring that matches the template-reference grammar or the            *)
(* prompt-reference grammar, whatever the store holds and the UI replies.  *)
(***************************************************************************)
\* C11: a text returned with a nil error holds no reference token
C11_NoTokenLeft ==
    Succeeded => ~HasToken(result.text)

(***************************************************************************)
(* C12. There is no cycle protection: when the requested template refers,  *)
(* directly or through other templates, back to itself, Expand never       *)
(* returns.                                                                *)
(***************************************************************************)
\* the names of the stored templates reached from the text t in at most d steps
RECURSIVE Reached(_, _)
Reached(t, d) ==
    IF d = 0 THEN {}
    ELSE LET direct == Refs(t) \cap DOMAIN entry.boilerplates
         IN  direct \cup UNION {Reached(entry.boilerplates[id].Value, d - 1) : id \in direct}

\* the requested template is on a cycle of references
OnCycle == Known /\ name \in Reached(Body, Cardinality(DOMAIN entry.boilerplates))

\* C12: Expand of a template that is on a cycle of references never returns
C12_CycleNeverReturns ==
    OnCycle => ~Returned

(***************************************************************************)
(* C13. A [[...]] span is a template reference only when the text between  *)
(* the delimiters is a non-empty string of A-Z, a-z, 0-9 and '_'; a span   *)
(* with any other inner character is not a token, causes no lookup and no  *)
(* error, and stays in the result as literal text.                         *)
(***************************************************************************)
\* the spans [[...]] of t whose inner text is empty or holds a character that is
\* not of the identifier class
BadRefSpans(t) ==
    UNION {{<<i, j>> : j \in {j \in (i + 3)..Len(t) :
                                /\ t[i + 1] = "[" /\ t[j - 1] = "]" /\ t[j] = "]"
                                /\ \/ j = i + 3
                                   \/ \E k \in (i + 2)..(j - 2) : t[k] \notin IdentChars}} :
              i \in {i \in 1..(Len(t) - 3) : t[i] = "["}}

\* the span ij of before lies in front of every token of before
BeforeTokens(ij) == ~HasToken(before) \/ ij[2] < FirstSpan(before)[1]

\* the span ij of before stands unchanged in the text the step leaves
Kept(ij) ==
    LET left == IF pc' = "loop" THEN before' ELSE result'.text
    IN  /\ Len(left) >= ij[2]
        /\ SubSeq(left, ij[1], ij[2]) = SubSeq(before, ij[1], ij[2])

\* C13: a [[...]] span with a non-identifier inner text is never looked up, and
\* a step that does not fail leaves it where it is
C13_OnlyIdentifiers ==
    [][pc = "loop" =>
          /\ \A ij \in BadRefSpans(before) :
                /\ ~(/\ result'.err.kind = "unknown referenced boilerplate"
                     /\ result'.err.arg = Inner(before, ij))
                /\ BeforeTokens(ij) => (result'.err = NilErr => Kept(ij))
          /\ (BadRefSpans(before) # {} /\ ~HasToken(before)) =>
                /\ pc' = "returned"
                /\ result' = [text |-> before, err |-> NilErr]
                /\ uiCalls' = uiCalls]_vars

\* the span [[a-b]] came through an expansion that asked for what follows it
C13_Witness ==
    /\ Succeeded
    /\ Body = ValBadAsk
    /\ Len(uiCalls) = 1
    /\ result.text = ValBadDash \o Reply1

(***************************************************************************)
(* C14. For every non-empty text t that does not hold the closing          *)
(* delimiter, the span {{t}} is recognised by the scan as a prompt         *)
(* reference whose inner text is exactly t, not trimmed.                   *)
(***************************************************************************)
\* t holds two closing braces in a row
HasClosing(t) == \E k \in 1..(Len(t) - 1) : t[k] = "}" /\ t[k + 1] = "}"

\* the spans {{t}} of w, t non-empty and without the two-character closing delimiter
WrappedSpans(w) ==
    UNION {{<<i, j>> : j \in {j \in (i + 4)..Len(w) :
                                /\ w[j - 1] = "}" /\ w[j] = "}"
                                /\ ~HasClosing(SubSeq(w, i + 2, j - 2))}} :
              i \in {i \in 1..(Len(w) - 4) : w[i] = "{" /\ w[i + 1] = "{"}}

\* no token of before starts in front of the span ij
Leading(ij) == \A kl \in TokenSpans(before) : kl[1] >= ij[1]

\* the step scanned the span ij of before as a prompt and asked with its inner text
AskedWith(ij) ==
    /\ FindStringIndex(before) = <<ij[1] - 1, ij[2]>>
    /\ Called
    /\ JoinPipe(<<LastCall.prompt>> \o LastCall.options) = Inner(before, ij)

\* C14 as claimed: every span {{t}} with t non-empty and free of the closing
\* delimiter is taken, once no token stands in front of it, as a prompt with
\* inner text t
C14_AnyInner ==
    [][pc = "loop" =>
          \A ij \in WrappedSpans(before) : Leading(ij) => AskedWith(ij)]_vars

\* C14 as amended: every span {{t}} with t non-empty and free of the closing
\* brace is taken, once no token stands in front of it, as a prompt with inner
\* text t
C14_NoBraceInner ==
    [][pc = "loop" =>
          \A ij \in WrappedSpans(before) :
              (Leading(ij) /\ "}" \notin Range(Inner(before, ij))) => AskedWith(ij)]_vars

\* a label with blanks around it was asked as it stands
C14_Witness ==
    /\ Succeeded
    /\ Body = ValPadded
    /\ Len(uiCalls) = 1
    /\ uiCalls[1].op = "Prompt"
    /\ uiCalls[1].prompt = <<" ", "a", " ", "b", " ">>
    /\ result.text = uiCalls[1].reply

(***************************************************************************)
(* C15. Each step resolves the token that starts earliest in the text,     *)
(* whichever grammar it belongs to; delimiters do not nest; and the kind   *)
(* of the token is that of the opening delimiter of the span.              *)
(***************************************************************************)
\* C15: a step acts on the token that starts first, as a prompt when it opens
\* with a brace and as a template reference when it opens with a bracket
C15_EarliestToken ==
    [][(pc = "loop" /\ HasToken(before)) =>
          LET ij == FirstSpan(before)
          IN  IF before[ij[1]] = "{"
              THEN /\ Called
                   /\ JoinPipe(<<LastCall.prompt>> \o LastCall.options) = Inner(before, ij)
                   /\ LastCall.err = "nil" => Landed(FirstReplaced(LastCall.reply))
                   /\ LastCall.err # "nil" => (pc' = "returned" /\ result'.err.kind = "ui")
                   /\ before = ValNested => LastCall.prompt = ValSelfA
              ELSE /\ uiCalls' = uiCalls
                   /\ \/ /\ pc' = "returned"
                         /\ result'.err.kind = "unknown referenced boilerplate"
                         /\ result'.err.arg = Inner(before, ij)
                      \/ \E n \in DOMAIN boilerplates :
                            Landed(FirstReplaced(boilerplates[n].Value))]_vars

\* a reference written inside a prompt was shown as the label, and a prompt in
\* front of a reference was asked first
C15_Witness ==
    /\ Succeeded
    /\ Body = ValNested
    /\ Len(uiCalls) = 1
    /\ uiCalls[1].prompt = ValSelfA
    /\ result.text = Reply1

(***************************************************************************)
(* C16. Expand is read-only on template content: whatever Expand calls are *)
(* made, successful or failed, the set of template names and the name and  *)
(* body of every template stay as they are, in memory and in the store;    *)
(* only the usage count of the requested template may change.              *)
(***************************************************************************)
\* the rows have the same names, and each the same name and body, after the step
SameContent(rows, rowsAfter) ==
    /\ DOMAIN rowsAfter = DOMAIN rows
    /\ \A n \in DOMAIN rows :
          /\ rowsAfter[n].Name = rows[n].Name
          /\ rowsAfter[n].Value = rows[n].Value

\* the rows other than that of n have the same count after the step
SameCountsBut(rows, rowsAfter, n) ==
    \A m \in (DOMAIN rows \cap DOMAIN rowsAfter) \ {n} : rowsAfter[m].Count = rows[m].Count

\* C16: a step of Expand leaves names and bodies alone, in memory and in the
\* store, and changes no count but that of the requested template
C16_ReadOnly ==
    [][pc' \in {"loop", "returned"} =>
          /\ SameContent(boilerplates, boilerplates')
          /\ SameContent(db, db')
          /\ SameCountsBut(boilerplates, boilerplates', name')
          /\ SameCountsBut(db, db', name')
          /\ \A n \in DOMAIN boilerplates : boilerplates[n].Name = n
          /\ \A n \in DOMAIN db : db[n].Name = n]_vars

\* a second expansion has succeeded after rewriting its text, and the bodies
\* are those the store was loaded with
C16_Witness ==
    /\ Succeeded
    /\ result.text # Body
    /\ boilerplates[name].Count = 2
    /\ db[name].Count = 2
    /\ boilerplates[name].Value = Body
    /\ db[name].Value = Body

(***************************************************************************)
(* C17. IncBoilerplateCount(name) on a stored name raises that record's    *)
(* count by one and leaves its value and every other record as they were,  *)
(* so that k successful increments give the initial count plus k; on a     *)
(* name that is not stored it returns an error and changes nothing.        *)
(***************************************************************************)
\* the place in dbCalls of the last call other than an increment, 0 if none
LastOther ==
    LET others == {k \in 1..Len(dbCalls) : dbCalls[k].op # "IncBoilerplateCount"}
    IN  IF others = {} THEN 0 ELSE CHOOSE k \in others : \A l \in others : l <= k

\* the increments made since: entry.db is the table they started from
Increments == (LastOther + 1)..Len(dbCalls)

\* how many of them succeeded on n
IncsOn(n) ==
    Cardinality({k \in Increments : dbCalls[k].name = n /\ dbCalls[k].err = "nil"})

\* C17: after any run of increments every stored record has its count raised by
\* the number of successful increments on its name and is otherwise as it was,
\* no record has come or gone, an increment on a stored name fails only when
\* the statement does, and one on a name that is not stored returns the
\* unknown-boilerplate error
C17_Increment ==
    /\ DOMAIN db = DOMAIN entry.db
    /\ \A n \in DOMAIN db :
          db[n] = [entry.db[n] EXCEPT !.Count = @ + IncsOn(n)]
    /\ \A k \in Increments :
          IF dbCalls[k].name \in DOMAIN entry.db
          THEN dbCalls[k].err \in {"nil", "exec"}
          ELSE dbCalls[k].err \in {"unknown boilerplate", "exec"}

\* two increments of a record succeeded and one of a name that is not stored
\* was refused
C17_Witness ==
    /\ Len(dbCalls) = 3
    /\ LastOther = 0
    /\ IncsOn(NameA) = 2
    /\ db[NameA].Count = 2
    /\ NameBrA \notin DOMAIN db
    /\ \E k \in 1..3 : dbCalls[k].name = NameBrA /\ dbCalls[k].err = "unknown boilerplate"

(***************************************************************************)
(* C18. Names are unique in the store after any sequence of                *)
(* CreateBoilerplate, UpdateBoilerplate, DeleteBoilerplate and             *)
(* IncBoilerplateCount calls: CreateBoilerplate of a stored name fails and *)
(* leaves the record's value and count as they were, and a lookup returns  *)
(* the record with exactly the requested name.                             *)
(***************************************************************************)
\* the call the step made
StoreCalled == Len(dbCalls') = Len(dbCalls) + 1

LastStoreCall == dbCalls'[Len(dbCalls')]

\* C18: after every call each name has one row, which a lookup by that name
\* returns and no lookup by another name does; CreateBoilerplate of a stored
\* name fails and leaves the table as it was
C18_UniqueNames ==
    [][StoreCalled =>
          /\ \A n \in EngineNames :
                LET got == GetBoilerplateByName(db', n)
                IN  /\ Cardinality(got.found) <= 1
                    /\ \A row \in got.found : row.Name = n
                    /\ got.found = {db'[m] : m \in {m \in DOMAIN db' : db'[m].Name = n}}
          /\ (LastStoreCall.op = "CreateBoilerplate" /\ LastStoreCall.name \in DOMAIN db) =>
                /\ LastStoreCall.err # "nil"
                /\ db' = db]_vars

\* a second CreateBoilerplate of a name was refused after the record had been
\* created and counted
C18_Witness ==
    /\ Len(dbCalls) = 3
    /\ dbCalls[1] = [op |-> "CreateBoilerplate", name |-> NameA, err |-> "nil"]
    /\ dbCalls[2] = [op |-> "IncBoilerplateCount", name |-> NameA, err |-> "nil"]
    /\ dbCalls[3] = [op |-> "CreateBoilerplate", name |-> NameA, err |-> "constraint"]
    /\ db[NameA].Count = 1

(***************************************************************************)
(* C19. Engine.Delete removes a boilerplate by name: once Delete(name) has *)
(* returned without error the engine no longer has the template, so in the *)
(* same session Names() does not list it, Get(name) reports not found and  *)
(* Expand(name) fails with the unknown-boilerplate error.                  *)
(***************************************************************************)
\* Delete(n) has just returned without error, as the variables v show it
Deleted(v, n) ==
    /\ v.pc = "idle"
    /\ v.name = n
    /\ v.result.err = NilErr
    /\ v.dbCalls = <<[op |-> "DeleteBoilerplate", name |-> n, err |-> "nil"]>>

\* C19: when Delete(name) returns without error the collection no longer has
\* the name, and an Expand(name) that follows fails with the unknown-boilerplate
\* error
C19_DeleteRemoves ==
    [][/\ Deleted([pc |-> pc', name |-> name', result |-> result', dbCalls |-> dbCalls'],
                  name') =>
              name' \notin DOMAIN boilerplates'
       /\ (/\ Deleted([pc |-> pc, name |-> name, result |-> result, dbCalls |-> dbCalls],
                      name)
           /\ pc' # "idle"
           /\ name' = name) =>
              /\ pc' = "returned"
              /\ result'.err.kind = "unknown boilerplate"
              /\ result'.err.arg = name]_vars

(***************************************************************************)
(* C20. The UI of an expansion is chosen by precedence: a non-empty --ui   *)
(* flag overrides the configuration; otherwise the configuration's         *)
(* default_ui is used; and when the resulting value is missing or is not   *)
(* "rofi" the terminal UI is used (a default_ui of the file that is        *)
(* neither "terminal" nor "rofi" is replaced by "terminal" on load).       *)
(***************************************************************************)
\* the value the precedence gives: the flag, else the file's default_ui, else none
Preferred ==
    IF runtime.ui # "" THEN runtime.ui
    ELSE IF runtime.file.exists THEN runtime.file.default_ui
    ELSE ""

\* C20: every call of an expansion goes to the rofi UI when the flag, or without
\* a flag the file, says "rofi", and to the terminal UI otherwise; without a flag
\* a default_ui that is neither "terminal" nor "rofi" is loaded as "terminal"
C20_UIPrecedence ==
    /\ runtime.selectedUI = IF Preferred = "rofi" THEN "RofiUI" ELSE "TermUI"
    /\ \A k \in 1..Len(uiCalls) : uiCalls[k].ui = runtime.selectedUI
    /\ (runtime.ui = "" /\ Preferred \notin {"terminal", "rofi"}) =>
          runtime.config.DefaultUI = "terminal"

\* the flag asked for terminal against a file that asks for rofi, and the
\* expansion prompted on the terminal UI
C20_Witness ==
    /\ Succeeded
    /\ runtime.ui = "terminal"
    /\ runtime.file = [exists |-> TRUE, default_ui |-> "rofi"]
    /\ Len(uiCalls) = 1
    /\ uiCalls[1].ui = "TermUI"

(***************************************************************************)
(* C21: a free-form prompt returns what the user entered.                  *)
(***************************************************************************)
\* C21: whichever Interaction Provider is active, every Prompt call that
\* succeeds returns the text exactly as the user entered it, leading and
\* trailing white space included.
C21_RawPrompt ==
    \A k \in 1..Len(uiCalls) :
        (uiCalls[k].op = "Prompt" /\ uiCalls[k].err = "nil") =>
            uiCalls[k].reply = uiCalls[k].entered

(***************************************************************************)
(* C22: the list of templates is shown most used first.                    *)
(***************************************************************************)
\* the count the list l shows for the template n
Shown(l, n) == l[CHOOSE k \in DOMAIN l : l[k].Name = n].Count

\* C22: every list SelectBoilerplate shows holds each template once, in an
\* order of non-increasing count, with the count the template has in memory;
\* and in a session the list shown after a successful expansion counts that
\* expansion: its template stands one higher than in the list before, every
\* other template as before.
C22_MostUsedFirst ==
    [][pc # "loop" =>
          /\ Len(offered') = Cardinality(DOMAIN boilerplates)
          /\ {offered'[k].Name : k \in DOMAIN offered'} = DOMAIN boilerplates
          /\ \A i, j \in DOMAIN offered' : i < j => offered'[i].Count >= offered'[j].Count
          /\ \A n \in DOMAIN boilerplates : Shown(offered', n) = boilerplates[n].Count
          /\ pc = "returned" =>
                \A n \in DOMAIN boilerplates :
                    Shown(offered', n) = Shown(offered, n) + (IF n = name THEN 1 ELSE 0)]_vars

\* B and A stood level, B was expanded, and the next list shows B first, one
\* above A
C22_Witness ==
    /\ pc = "exited"
    /\ name = NameB
    /\ result.err = NilErr
    /\ DOMAIN entry.boilerplates = {NameA, NameB}
    /\ entry.boilerplates[NameB].Count = entry.boilerplates[NameA].Count
    /\ offered = <<[Name |-> NameB, Count |-> entry.boilerplates[NameB].Count + 1],
                   [Name |-> NameA, Count |-> entry.boilerplates[NameA].Count]>>

(***************************************************************************)
(* C23: one step on a reference to a stored template inserts its raw body. *)
(***************************************************************************)
\* the first token of before is a reference [[id]] and a template named id is
\* in the collection
FirstIsStoredRef ==
    /\ HasToken(before)
    /\ FirstSpan(before) \in InclusionSpans(before)
    /\ Inner(before, FirstSpan(before)) \in DOMAIN boilerplates

\* C23: a step whose first token is [[id]] with a template named id stored
\* replaces that span, and nothing else, by the body of id as it is stored,
\* tokens included, and asks the UI nothing.
C23_RawInclusion ==
    [][(pc = "loop" /\ FirstIsStoredRef) =>
          /\ Landed(FirstReplaced(boilerplates[Inner(before, FirstSpan(before))].Value))
          /\ uiCalls' = uiCalls]_vars

(***************************************************************************)
(* C24: a step that leaves the text as it was ends the loop.               *)
(***************************************************************************)
\* C24: when a step on a text with a token produces that same text, Expand
\* returns it at that step without error, the count of the requested template
\* is raised by one, by one call of the store, no other count changes, and no
\* UI call follows the return.
C24_NoOpEndsLoop ==
    [][/\ (pc = "loop" /\ HasToken(before) /\ Landed(before)) =>
             /\ pc' = "returned"
             /\ result' = [text |-> before, err |-> NilErr]
             /\ boilerplates' =
                    [boilerplates EXCEPT ![name].Count = boilerplates[name].Count + 1]
             /\ Len(dbCalls') = Len(dbCalls) + 1
             /\ dbCalls'[Len(dbCalls')].op = "IncBoilerplateCount"
             /\ dbCalls'[Len(dbCalls')].name = name
       /\ pc = "returned" => ~Called]_vars

\* the reply to the prompt q was the token {{q}} itself, and Expand returned
\* what it had
C24_Witness ==
    /\ Succeeded
    /\ Body = ValAskQ
    /\ Len(uiCalls) = 1
    /\ uiCalls[1].reply = ValAskQ
    /\ result.text = ValAskQ
    /\ boilerplates[name].Count = entry.boilerplates[name].Count + 1

(***************************************************************************)
(* C30: what the UI answers is scanned like the rest of the text.           *)
(***************************************************************************)
\* the last UI call of this expansion so far
PrevCall == uiCalls[Len(uiCalls)]

\* a reply that holds a token has been given in this expansion
TokenReplied == \E k \in 1..Len(uiCalls) : uiCalls[k].err = "nil" /\ HasToken(uiCalls[k].reply)

\* C30: a reply that holds a token is inserted as it is and the loop goes on
\* with it (unless the text did not change), its first token standing no
\* further right than where the reply put it; and after such a reply every
\* step acts on the first token of the text: a prompt token is asked with its
\* label, a reference [[id]] is looked up without asking, and is replaced by
\* the body of a stored template or fails with the unknown-referenced error
\* naming id.
C30_RepliesScanned ==
    [][/\ (/\ Called /\ LastCall.err = "nil" /\ HasToken(LastCall.reply)
           /\ FirstReplaced(LastCall.reply) # before) =>
             /\ pc' = "loop"
             /\ before' = FirstReplaced(LastCall.reply)
             /\ HasToken(before')
             /\ FirstSpan(before')[1] <=
                    FirstSpan(before)[1] - 1 + FirstSpan(LastCall.reply)[1]
       /\ (pc = "loop" /\ TokenReplied /\ HasToken(before)) =>
             LET ij == FirstSpan(before)
             IN  /\ ij \in PromptSpans(before) =>
                       /\ Called
                       /\ IndexRune(Inner(before, ij)) < 0 =>
                             /\ LastCall.op = "Prompt"
                             /\ LastCall.prompt = Inner(before, ij)
                       /\ IndexRune(Inner(before, ij)) >= 0 => LastCall.op = "Select"
                 /\ ij \in InclusionSpans(before) =>
                       /\ uiCalls' = uiCalls
                       /\ \/ /\ pc' = "returned"
                             /\ result'.text = <<>>
                             /\ result'.err.kind = "unknown referenced boilerplate"
                             /\ result'.err.arg = Inner(before, ij)
                          \/ \E n \in DOMAIN boilerplates :
                                Landed(FirstReplaced(boilerplates[n].Value))]_vars

\* the prompt n was answered {{q}}, and the prompt q was asked next
C30_Witness ==
    /\ Known
    /\ Body = ValPrompt
    /\ Len(uiCalls) = 2
    /\ uiCalls[1].prompt = <<"n">>
    /\ uiCalls[1].reply = ValAskQ
    /\ uiCalls[2].op = "Prompt"
    /\ uiCalls[2].prompt = <<"q">>
    /\ uiCalls[2].err = "nil"

(***************************************************************************)
(* C25: Select is only called with at least one choice.                    *)
(***************************************************************************)
\* the text t holds the character '|'
HasBar(t) == \E k \in 1..Len(t) : t[k] = "|"

\* C25: every Select call of an expansion carries at least one choice; a call
\* made for a prompt token is a Select exactly when the token holds a '|', and
\* a Prompt, with no choices, otherwise.
C25_SelectHasChoices ==
    [][Called =>
          LET innerValue == Inner(before, FirstSpan(before))
          IN  /\ LastCall.op = "Select" <=> HasBar(innerValue)
              /\ LastCall.op = "Select" => Len(LastCall.options) >= 1
              /\ LastCall.op = "Prompt" <=> ~HasBar(innerValue)
              /\ \A k \in 1..Len(uiCalls') :
                    uiCalls'[k].op = "Select" => Len(uiCalls'[k].options) >= 1]_vars

\* the token {{P|}} was sent to Select with one choice, the empty string
C25_Witness ==
    /\ Known
    /\ Body = ValSelectOne
    /\ Len(uiCalls) = 1
    /\ uiCalls[1].op = "Select"
    /\ uiCalls[1].options = <<<<>>>>
    /\ uiCalls[1].err = "nil"

(***************************************************************************)
(* C26: without a cycle Expand returns, after one UI call for each prompt  *)
(* token of the fully inlined text.                                        *)
(***************************************************************************)
\* the leftmost template reference of t
FirstRef(t) ==
    CHOOSE ij \in InclusionSpans(t) : \A kl \in InclusionSpans(t) : ij[1] <= kl[1]

\* t with every reference replaced by the inlined body of the template it
\* names, prompt tokens left as they are
RECURSIVE Inlined(_)
Inlined(t) ==
    IF InclusionSpans(t) = {} THEN t
    ELSE LET ij == FirstRef(t)
         IN  SubSeq(t, 1, ij[1] - 1)
                \o Inlined(entry.boilerplates[Inner(t, ij)].Value)
                \o Inlined(SubSeq(t, ij[2] + 1, Len(t)))

\* every UI call of this expansion was answered, with text that holds no token
AnsweredPlainly ==
    \A k \in 1..Len(uiCalls) : uiCalls[k].err = "nil" /\ ~HasToken(uiCalls[k].reply)

\* C26: when the references reachable from the requested template form no
\* cycle and each names a stored template, and the UI answers every call with
\* token-free text, Expand returns a result, and the UI has been called once
\* for each prompt token of the fully inlined body.
C26_CallsOfInlined ==
    (/\ Returned
     /\ Known
     /\ Resolves(Body, Cardinality(DOMAIN entry.boilerplates))
     /\ AnsweredPlainly) =>
        /\ result.err = NilErr
        /\ Len(uiCalls) = PromptCount(Inlined(Body))

(***************************************************************************)
(* C27: tokens are resolved from left to right, with nothing validated     *)
(* ahead.                                                                  *)
(***************************************************************************)
\* the label and the choices of the call just made, joined as in the token
CallInner ==
    IF LastCall.op = "Select" THEN JoinPipe(<<LastCall.prompt>> \o LastCall.options)
    ELSE LastCall.prompt

\* C27: every step acts on the leftmost token of the current text and on
\* nothing to its right: when that token is a prompt the UI is called for it,
\* whatever stands after it, and the text to its left stays; a UI call is only
\* ever made for the leftmost token; and the unknown-referenced error is only
\* returned by a step whose leftmost token is that reference, so after every
\* prompt to its left has been asked.
C27_LeftToRight ==
    [][pc = "loop" =>
          /\ (HasToken(before) /\ FirstSpan(before) \in PromptSpans(before)) =>
                /\ Called
                /\ CallInner = Inner(before, FirstSpan(before))
                /\ \/ LastCall.err # "nil" /\ pc' = "returned" /\ result'.err.kind = "ui"
                   \/ LastCall.err = "nil" /\ Landed(FirstReplaced(LastCall.reply))
          /\ Called => (HasToken(before) /\ FirstSpan(before) \in PromptSpans(before))
          /\ (pc' = "returned" /\ result'.err.kind = "unknown referenced boilerplate") =>
                /\ HasToken(before)
                /\ FirstSpan(before) \in InclusionSpans(before)
                /\ result'.err.arg = Inner(before, FirstSpan(before))
                /\ uiCalls' = uiCalls
                /\ \A k \in 1..Len(uiCalls) : uiCalls[k].err = "nil"]_vars

\* the prompt q brought in by the template included for [[A]] was asked
\* before the prompt n to the right of the reference
C27_Included ==
    /\ Succeeded
    /\ Body = ValRefAsk
    /\ Len(uiCalls) = 2
    /\ uiCalls[1].prompt = <<"q">>
    /\ uiCalls[2].prompt = <<"n">>

\* the prompt left of the reference to the missing template M was asked and
\* answered before the reference failed
C27_Witness ==
    /\ Returned
    /\ Known
    /\ Body = ValAskMiss
    /\ result.err = ErrUnknownReferenced(<<"M">>)
    /\ Len(uiCalls) = 1
    /\ uiCalls[1].prompt = <<" ", "n", " ">>
    /\ uiCalls[1].err = "nil"

(***************************************************************************)
(* C28: the counts in memory and in the store stay in step.                *)
(***************************************************************************)
\* C28: from a start in which each template has the same count in memory as
\* in the store, after any sequence of Expand calls, those in which the
\* increment of the store fails included, each template still has the same
\* count in memory as in the store.
C28_CountsInStep ==
    \A n \in DOMAIN boilerplates :
        /\ n \in DOMAIN db
        /\ boilerplates[n].Count = db[n].Count

(***************************************************************************)
(* C29: Add and Edit change the collection only when they succeed, and     *)
(* Edit changes the body only.                                             *)
(***************************************************************************)
\* the step is a call of Add, or of Edit
IsAdd == \E n \in ManageNames, v \in ManageValues : Add(n, v)

IsEdit == \E n \in ManageNames, v \in ManageValues : Edit(n, v)

\* C29: an Add or an Edit that returns an error, an error of the store's
\* create or update call included, leaves the collection in memory as it was;
\* and an Edit that succeeds changes the body of its template only: the same
\* templates are held, in memory and in the store, each with the count it had.
C29_AllOrNothing ==
    [][/\ ((IsAdd \/ IsEdit) /\ result'.err # NilErr) => boilerplates' = boilerplates
       /\ (IsEdit /\ result'.err = NilErr) =>
             /\ DOMAIN boilerplates' = DOMAIN boilerplates
             /\ DOMAIN db' = DOMAIN db
             /\ \A m \in DOMAIN boilerplates :
                   /\ boilerplates'[m].Count = boilerplates[m].Count
                   /\ m # name' => boilerplates'[m] = boilerplates[m]
             /\ \A m \in DOMAIN db : db'[m].Count = db[m].Count]_vars


====
